---- MODULE Spec2Model ----
(***************************************************************************)
(* A model of src/app.py: the log parser (parse_log), the sqlite-backed    *)
(* record store (reset_db, init_db, store_logs, fetch_logs), the anomaly   *)
(* detector (detect_anomalies) and the module-level script that Streamlit  *)
(* runs from top to bottom on every interaction.                           *)
(*                                                                         *)
(* Text is a sequence of code points, a file a sequence of bytes; both are *)
(* sequences of integers.  A DataFrame is a record [kind, rows] whose rows *)
(* are records; the value detect_anomalies returns for "no anomalies" on a *)
(* short input is a Python list, which is kept apart by its kind.          *)
(***************************************************************************)
EXTENDS Integers, Sequences, FiniteSets, TLC

VARIABLES
    logs,            \* table logs of logs.db
    chat_history,    \* table chat_history of logs.db
    projects,        \* table projects of logs.db
    pc,              \* position of the script run (Spec) or the last call (SpecApi)
    uploaded_file,   \* what st.file_uploader returned in this run
    log_df,          \* parse_log's result (the argument of store_logs)
    logs_df,         \* fetch_logs' result (the argument of detect_anomalies)
    analyzed_df,     \* first component of detect_anomalies' result
    anomalies_df,    \* second component of detect_anomalies' result
    model_fit,       \* what became of IsolationForest.fit_predict in this call
    run,             \* the number of this script run in the session
    error            \* the exception that ended the run or the call, or "none"

vars == <<logs, chat_history, projects, pc, uploaded_file, log_df, logs_df,
          analyzed_df, anomalies_df, model_fit, run, error>>

(***************************** bounds and constants ************************)

\* Most pieces an enumerated small file is concatenated from.
MaxPieces == 5

\* Most lines of an enumerated bulk file, and most rows of the store in SpecApi.
MaxRecords == 11

\* Most script runs of one session.
MaxRuns == 2

\* detect_anomalies' floor: fewer records than this and the model is not fit.
MinSamples == 10

(***************************** text helpers ********************************)

SP == 32
HY == 45
LF == 10
CR == 13

\* The separator ' - ' of parse_log.
Delim == <<SP, HY, SP>>

\* The code points str.splitlines() breaks a line at.
LineBreaks == {10, 11, 12, 13, 28, 29, 30, 133, 8232, 8233}

Drop(s, n) == SubSeq(s, n + 1, Len(s))

Take(s, n) == SubSeq(s, 1, n)

MatchAt(s, p, i) ==
    /\ i >= 1
    /\ i + Len(p) - 1 <= Len(s)
    /\ \A k \in 1..Len(p) : s[i + k - 1] = p[k]

\* str.find: the first index (from 1) at which p occurs in s, 0 when it does not.
Find(s, p) ==
    LET hits == {i \in 1..Len(s) : MatchAt(s, p, i)}
    IN  IF hits = {} THEN 0 ELSE CHOOSE i \in hits : \A j \in hits : i <= j

\* sep in s
Contains(s, sep) == Find(s, sep) # 0

RECURSIVE Split(_, _, _)
\* str.split(sep, maxsplit): cut at the leftmost occurrence, at most maxsplit times.
Split(s, sep, maxsplit) ==
    LET i == Find(s, sep)
    IN  IF maxsplit = 0 \/ i = 0
        THEN <<s>>
        ELSE <<Take(s, i - 1)>> \o Split(Drop(s, i + Len(sep) - 1), sep, maxsplit - 1)

RECURSIVE SplitLines(_)
\* str.splitlines(): lines without their breaks; "\r\n" is one break; no empty
\* last line after a final break.
SplitLines(text) ==
    LET brk == {i \in 1..Len(text) : text[i] \in LineBreaks}
    IN  IF text = <<>> THEN <<>>
        ELSE IF brk = {} THEN <<text>>
        ELSE LET i == CHOOSE k \in brk : \A j \in brk : k <= j
                 w == IF text[i] = CR /\ i < Len(text) /\ text[i + 1] = LF
                      THEN 2 ELSE 1
             IN  <<Take(text, i - 1)>> \o SplitLines(Drop(text, i + w - 1))

IsCont(b) == b >= 128 /\ b <= 191

\* The length of the UTF-8 sequence that starts b (0: b starts none), and the
\* range its second byte must lie in.
Utf8Width(b) ==
    IF b < 128 THEN 1
    ELSE IF b >= 194 /\ b <= 223 THEN 2
    ELSE IF b >= 224 /\ b <= 239 THEN 3
    ELSE IF b >= 240 /\ b <= 244 THEN 4
    ELSE 0

Utf8SecondOk(b, c) ==
    CASE b = 224 -> c >= 160 /\ c <= 191
      [] b = 237 -> c >= 128 /\ c <= 159
      [] b = 240 -> c >= 144 /\ c <= 191
      [] b = 244 -> c >= 128 /\ c <= 143
      [] OTHER   -> IsCont(c)

\* bytes.decode('utf-8'): [ok |-> TRUE, text] or [ok |-> FALSE] (UnicodeDecodeError).
\* Every byte that is no continuation byte must start a well-formed sequence
\* that runs up to the next such byte; the text holds one code point for each.
Utf8Decode(bytes) ==
    LET n == Len(bytes)
        IsLead(i) == ~IsCont(bytes[i])
        leads == SelectSeq([i \in 1..n |-> i], IsLead)
        w(i) == Utf8Width(bytes[i])
        good(i) == /\ w(i) # 0
                   /\ i + w(i) - 1 <= n
                   /\ \A k \in (i + 1)..(i + w(i) - 1) : IsCont(bytes[k])
                   /\ w(i) >= 2 => Utf8SecondOk(bytes[i], bytes[i + 1])
                   /\ i + w(i) <= n => ~IsCont(bytes[i + w(i)])
        cp(i) == CASE w(i) = 1 -> bytes[i]
                   [] w(i) = 2 -> (bytes[i] - 192) * 64 + (bytes[i + 1] - 128)
                   [] w(i) = 3 -> (bytes[i] - 224) * 4096 + (bytes[i + 1] - 128) * 64
                                  + (bytes[i + 2] - 128)
                   [] OTHER    -> (bytes[i] - 240) * 262144
                                  + (bytes[i + 1] - 128) * 4096
                                  + (bytes[i + 2] - 128) * 64 + (bytes[i + 3] - 128)
        ok == /\ n > 0 => ~IsCont(bytes[1])
              /\ \A k \in 1..Len(leads) : good(leads[k])
    IN  IF ok
        THEN [ok |-> TRUE, text |-> [k \in 1..Len(leads) |-> cp(leads[k])]]
        ELSE [ok |-> FALSE, text |-> <<>>]

(***************************** values of the script ************************)

DataFrame(rows) == [kind |-> "DataFrame", rows |-> rows]

\* The literal [] that detect_anomalies returns below the floor.
PyList == [kind |-> "list", rows |-> <<>>]

\* A name of the script not assigned yet in this run.
Unset == [kind |-> "unset", rows |-> <<>>]

\* st.file_uploader's result: None, or an UploadedFile holding bytes.
None == [present |-> FALSE, data |-> <<>>]

UploadedFile(bytes) == [present |-> TRUE, data |-> bytes]

(***************************** parse_log **********************************)

\* The loop body with missing parts read as empty instead of raising.
ParseLineUnchecked(line) ==
    LET parts == Split(line, Delim, 2)
        part(k) == IF k <= Len(parts) THEN parts[k] ELSE <<>>
    IN  IF Contains(line, Delim)
        THEN <<[timestamp |-> part(1), level |-> part(2), message |-> part(3)]>>
        ELSE <<>>

\* The loop body cutting at the last two separators (rsplit) instead.
ParseLineRightmost(line) ==
    LET parts == Split(line, Delim, Len(line))
        n == Len(parts)
        RECURSIVE JoinParts(_)
        JoinParts(k) == IF k = 1 THEN parts[1]
                        ELSE JoinParts(k - 1) \o Delim \o parts[k]
    IN  IF n >= 3
        THEN <<[timestamp |-> JoinParts(n - 2), level |-> parts[n - 1],
                message |-> parts[n]]>>
        ELSE <<>>

\* The body of parse_log's loop for one line: the records it appends.  A line
\* with the separator that splits into fewer than three parts raises
\* IndexError at parts[2], which the bare except swallows.
ParseLine(line) ==
    LET parts == Split(line, Delim, 2)
    IN  IF Contains(line, Delim) /\ Len(parts) >= 3
        THEN <<[timestamp |-> parts[1], level |-> parts[2], message |-> parts[3]]>>
        ELSE <<>>

RECURSIVE ParseLines(_)
ParseLines(lines) ==
    IF lines = <<>> THEN <<>>
    ELSE ParseLine(lines[1]) \o ParseLines(Tail(lines))

\* The bytes of a file that belong to no well-formed sequence, left out.
Utf8Strip(bytes) ==
    LET IsOk(i) ==
          \E j \in 1..i :
            /\ ~IsCont(bytes[j])
            /\ j + Utf8Width(bytes[j]) - 1 >= i
            /\ j + Utf8Width(bytes[j]) - 1 <= Len(bytes)
            /\ Utf8Decode(SubSeq(bytes, j, j + Utf8Width(bytes[j]) - 1)).ok
        keep == SelectSeq([i \in 1..Len(bytes) |-> i], IsOk)
    IN  [k \in 1..Len(keep) |-> bytes[keep[k]]]

\* parse_log decoding with errors='ignore'.
parse_log_ignore(bytes) ==
    [raised |-> "none",
     df |-> DataFrame(ParseLines(SplitLines(Utf8Decode(Utf8Strip(bytes)).text)))]

\* parse_log(file): the exception it raises ("none": it returns) and the frame.
parse_log(bytes) ==
    LET dec == Utf8Decode(bytes)
    IN  IF ~dec.ok
        THEN [raised |-> "UnicodeDecodeError", df |-> Unset]
        ELSE [raised |-> "none", df |-> DataFrame(ParseLines(SplitLines(dec.text)))]

(***************************** the tables **********************************)

\* A table of logs.db: whether it exists, its rows in rowid order, the last id
\* its AUTOINCREMENT counter handed out (sqlite_sequence), and whether it has
\* the id column (a table that DataFrame.to_sql created has none).
NoTable == [exists |-> FALSE, rows |-> <<>>, seq |-> 0, has_id |-> FALSE]

EmptyTable == [exists |-> TRUE, rows |-> <<>>, seq |-> 0, has_id |-> TRUE]

\* A reset that leaves the table in place.
DropTableKeepsRows(tbl) == tbl

\* DROP TABLE IF EXISTS: the table and its sqlite_sequence entry go.
DropTable(tbl) == NoTable

\* CREATE TABLE IF NOT EXISTS ... (id INTEGER PRIMARY KEY AUTOINCREMENT, ...)
CreateTable(tbl) == IF tbl.exists THEN tbl ELSE EmptyTable

\* reset_db() on the three tables <<logs, chat_history, projects>>.
reset_db(db) == [t \in DOMAIN db |-> DropTable(db[t])]

\* init_db() on the three tables.
init_db(db) == [t \in DOMAIN db |-> CreateTable(db[t])]

RECURSIVE InsertRows(_, _)
\* INSERT INTO logs (timestamp, level, message) for every row, in order.
InsertRows(tbl, rows) ==
    IF rows = <<>> THEN tbl
    ELSE LET r == rows[1]
             new == IF tbl.has_id
                    THEN [id |-> tbl.seq + 1, timestamp |-> r.timestamp,
                          level |-> r.level, message |-> r.message]
                    ELSE [timestamp |-> r.timestamp, level |-> r.level,
                          message |-> r.message]
         IN  InsertRows([tbl EXCEPT !.rows = Append(@, new), !.seq = @ + 1],
                        Tail(rows))

\* store_logs with if_exists="replace".
store_logs_replace(tbl, df) ==
    InsertRows([exists |-> TRUE, rows |-> <<>>, seq |-> 0, has_id |-> FALSE],
               df.rows)

\* store_logs(df): df.to_sql("logs", if_exists="append", index=False).  A
\* missing table is created from the frame's columns, without an id.
store_logs(tbl, df) ==
    IF tbl.exists
    THEN InsertRows(tbl, df.rows)
    ELSE InsertRows([exists |-> TRUE, rows |-> <<>>, seq |-> 0, has_id |-> FALSE],
                    df.rows)

\* fetch_logs(): SELECT * FROM logs; a missing table is pandas' DatabaseError.
fetch_logs(tbl) ==
    IF tbl.exists
    THEN [raised |-> "none", df |-> DataFrame(tbl.rows)]
    ELSE [raised |-> "DatabaseError", df |-> Unset]

\* store_chat(role, message) and add_project(title): one INSERT each.
InsertRow(tbl, fields) ==
    [tbl EXCEPT !.rows = Append(@, [id |-> tbl.seq + 1] @@ fields),
                !.seq = @ + 1]

store_chat(tbl, role, message) ==
    InsertRow(tbl, [role |-> role, message |-> message])

add_project(tbl, title) == InsertRow(tbl, [title |-> title])

StoredMsg == "Logs successfully stored in the local database."

NoEntriesMsg == "No valid log entries found in the file."

(***************************** detect_anomalies ****************************)

\* df['message'].str.len() of every row.
LengthsOf(df) == {Len(df.rows[i].message) : i \in 1..Len(df.rows)}

\* What IsolationForest(contamination=0.1, random_state=42).fit_predict may do
\* on the column of lengths: raise, or label every row by a function of its
\* length (the fitted forest scores a sample by its feature value alone).
FitOutcomes(df) ==
    {[raised |-> TRUE, predict |-> <<>>]}
    \cup {[raised |-> FALSE, predict |-> g] : g \in [LengthsOf(df) -> {-1, 1}]}

WithLength(rows) ==
    [i \in 1..Len(rows) |-> [length |-> Len(rows[i].message)] @@ rows[i]]

WithAnomaly(rows, predict) ==
    [i \in 1..Len(rows) |-> [anomaly |-> predict[rows[i].length]] @@ rows[i]]

IsOutlier(r) == r.anomaly = -1

\* detect_anomalies with a floor of 9.
detect_anomalies_floor9(df, fit) ==
    IF Len(df.rows) = 0 \/ Len(df.rows) < MinSamples - 1
    THEN [raised |-> "none", input |-> df, analyzed |-> df, anomalies |-> PyList,
          fitted |-> "skipped"]
    ELSE IF fit.raised
    THEN [raised |-> "FitError", input |-> DataFrame(WithLength(df.rows)),
          analyzed |-> Unset, anomalies |-> Unset, fitted |-> "raised"]
    ELSE LET a == DataFrame(WithAnomaly(WithLength(df.rows), fit.predict))
         IN  [raised |-> "none", input |-> a, analyzed |-> a,
              anomalies |-> DataFrame(SelectSeq(a.rows, IsOutlier)),
              fitted |-> "ok"]

IsInlier(r) == r.anomaly = 1

\* detect_anomalies filtering on the label 1.
detect_anomalies_flipped(df, fit) ==
    IF Len(df.rows) = 0 \/ Len(df.rows) < MinSamples
    THEN [raised |-> "none", input |-> df, analyzed |-> df, anomalies |-> PyList,
          fitted |-> "skipped"]
    ELSE IF fit.raised
    THEN [raised |-> "FitError", input |-> DataFrame(WithLength(df.rows)),
          analyzed |-> Unset, anomalies |-> Unset, fitted |-> "raised"]
    ELSE LET a == DataFrame(WithAnomaly(WithLength(df.rows), fit.predict))
         IN  [raised |-> "none", input |-> a, analyzed |-> a,
              anomalies |-> DataFrame(SelectSeq(a.rows, IsInlier)),
              fitted |-> "ok"]

\* detect_anomalies(df) under the outcome `fit` of the model: the exception it
\* raises, the frame df as the call leaves it (the columns are added in
\* place), the two values returned, and whether the model was fit.
detect_anomalies(df, fit) ==
    IF Len(df.rows) = 0 \/ Len(df.rows) < MinSamples
    THEN [raised |-> "none", input |-> df, analyzed |-> df, anomalies |-> PyList,
          fitted |-> "skipped"]
    ELSE IF fit.raised
    THEN [raised |-> "FitError", input |-> DataFrame(WithLength(df.rows)),
          analyzed |-> Unset, anomalies |-> Unset, fitted |-> "raised"]
    ELSE LET a == DataFrame(WithAnomaly(WithLength(df.rows), fit.predict))
         IN  [raised |-> "none", input |-> a, analyzed |-> a,
              anomalies |-> DataFrame(SelectSeq(a.rows, IsOutlier)),
              fitted |-> "ok"]

\* <frame>.empty: an attribute of a DataFrame only.
HasEmptyAttr(v) == v.kind = "DataFrame"

IsEmpty(v) == v.rows = <<>>

\* <frame>['length']: the column must be there.
HasLengthColumn(v) ==
    v.kind = "DataFrame" /\ \A i \in 1..Len(v.rows) : "length" \in DOMAIN v.rows[i]

(***************************** the inputs **********************************)

RECURSIVE Concat(_)
Concat(ss) == IF ss = <<>> THEN <<>> ELSE ss[1] \o Concat(Tail(ss))

\* What the small files are made of: the separator, a letter, a blank and a
\* hyphen (the separator's first two bytes), a line feed, a two-byte character
\* and a lone lead byte (which no UTF-8 text holds).
Pieces == {<<32, 45, 32>>, <<97>>, <<32, 45>>, <<10>>, <<195, 169>>, <<195>>}

SmallFiles ==
    {Concat(ps) : ps \in UNION {[1..k -> Pieces] : k \in 0..MaxPieces}}

\* Line i of a bulk file: "a - a - " and a message of 0, 1 or 3 characters.
BulkLine(i) ==
    <<97>> \o Delim \o <<97>> \o Delim
    \o (CASE i % 3 = 0 -> <<>>
          [] i % 3 = 1 -> <<195, 169>>
          [] OTHER     -> Delim)

RECURSIVE BulkFile(_)
BulkFile(n) ==
    IF n = 1 THEN BulkLine(1) ELSE BulkFile(n - 1) \o <<LF>> \o BulkLine(n)

BulkFiles == {BulkFile(n) : n \in 1..MaxRecords}

Files == SmallFiles \cup BulkFiles

\* The frames SpecApi appends: one record, and four.
Batches == {parse_log(BulkFile(1)).df, parse_log(BulkFile(4)).df}

(***************************** the script run ******************************)

Db == [logs |-> logs, chat_history |-> chat_history, projects |-> projects]

Locals == <<uploaded_file, log_df, logs_df, analyzed_df, anomalies_df, model_fit>>



\* logs.db as a run of the script finds it first: not there, or left by an
\* earlier process, with or without records.
Init ==
    /\ logs \in {NoTable, EmptyTable, store_logs(EmptyTable, parse_log(BulkFile(1)).df)}
    /\ chat_history = IF logs.exists THEN EmptyTable ELSE NoTable
    /\ projects = chat_history
    /\ pc = "start"
    /\ uploaded_file = None
    /\ log_df = Unset
    /\ logs_df = Unset
    /\ analyzed_df = Unset
    /\ anomalies_df = Unset
    /\ model_fit = "none"
    /\ run = 1
    /\ error = "none"

\* line 142: reset_db()
ResetDb ==
    /\ UNCHANGED run
    /\ pc = "start"
    /\ logs' = reset_db(Db).logs
    /\ chat_history' = reset_db(Db).chat_history
    /\ projects' = reset_db(Db).projects
    /\ pc' = "reset"
    /\ UNCHANGED <<Locals, error>>

\* line 143: init_db()
InitDb ==
    /\ UNCHANGED run
    /\ pc = "reset"
    /\ logs' = init_db(Db).logs
    /\ chat_history' = init_db(Db).chat_history
    /\ projects' = init_db(Db).projects
    /\ pc' = "init"
    /\ UNCHANGED <<Locals, error>>

\* lines 147-149: the uploader holds a file, or none (the script goes on to
\* the sidebar).
Uploader ==
    /\ UNCHANGED run
    /\ pc = "init"
    /\ \/ /\ uploaded_file' = None
          /\ pc' = "sidebar"
       \/ /\ \E f \in Files : uploaded_file' = UploadedFile(f)
          /\ pc' = "upload"
    /\ UNCHANGED <<logs, chat_history, projects, log_df, logs_df, analyzed_df,
                   anomalies_df, model_fit, error>>

\* line 150: log_df = parse_log(uploaded_file)
ParseLog ==
    /\ UNCHANGED run
    /\ pc = "upload"
    /\ LET r == parse_log(uploaded_file.data)
       IN  IF r.raised # "none"
           THEN /\ error' = r.raised
                /\ pc' = "crashed"
                /\ UNCHANGED log_df
           ELSE /\ log_df' = r.df
                /\ pc' = "parsed"
                /\ UNCHANGED error
    /\ UNCHANGED <<logs, chat_history, projects, uploaded_file, logs_df,
                   analyzed_df, anomalies_df, model_fit>>

\* lines 151-152: if not log_df.empty: store_logs(log_df)
StoreLogs ==
    /\ UNCHANGED run
    /\ pc = "parsed"
    /\ ~IsEmpty(log_df)
    /\ logs' = store_logs(logs, log_df)
    /\ pc' = "stored"
    /\ UNCHANGED <<chat_history, projects, Locals, error>>

\* lines 153-154: the ingestion is recorded in the chat and as a project.
RecordIngestion ==
    /\ UNCHANGED run
    /\ pc = "stored"
    /\ chat_history' = store_chat(chat_history, "assistant", StoredMsg)
    /\ projects' = add_project(projects, "Logging Aggregator")
    /\ pc' = "recorded"
    /\ UNCHANGED <<logs, Locals, error>>

\* lines 156-158: logs_df = fetch_logs()
FetchLogs ==
    /\ UNCHANGED run
    /\ pc = "recorded"
    /\ LET r == fetch_logs(logs)
       IN  IF r.raised # "none"
           THEN /\ error' = r.raised
                /\ pc' = "crashed"
                /\ UNCHANGED logs_df
           ELSE /\ logs_df' = r.df
                /\ pc' = "fetched"
                /\ UNCHANGED error
    /\ UNCHANGED <<logs, chat_history, projects, uploaded_file, log_df,
                   analyzed_df, anomalies_df, model_fit>>

\* lines 160-161: analyzed_df, anomalies_df = detect_anomalies(logs_df)
DetectAnomalies ==
    /\ UNCHANGED run
    /\ pc = "fetched"
    /\ \E fit \in FitOutcomes(logs_df) :
         LET r == detect_anomalies(logs_df, fit)
         IN  /\ logs_df' = r.input
             /\ model_fit' = r.fitted
             /\ IF r.raised # "none"
                THEN /\ error' = r.raised
                     /\ pc' = "crashed"
                     /\ UNCHANGED <<analyzed_df, anomalies_df>>
                ELSE /\ analyzed_df' = r.analyzed
                     /\ anomalies_df' = r.anomalies
                     /\ pc' = "detected"
                     /\ UNCHANGED error
    /\ UNCHANGED <<logs, chat_history, projects, uploaded_file, log_df>>

\* lines 164-169: the anomaly section; anomalies_df.empty is read first.
RenderAnomalies ==
    /\ UNCHANGED run
    /\ pc = "detected"
    /\ IF HasEmptyAttr(anomalies_df)
       THEN pc' = "col1" /\ UNCHANGED error
       ELSE pc' = "crashed" /\ error' = "AttributeError"
    /\ UNCHANGED <<logs, chat_history, projects, Locals>>

\* lines 170-176: the histogram of analyzed_df['length'].
RenderHistogram ==
    /\ UNCHANGED run
    /\ pc = "col1"
    /\ IF HasLengthColumn(analyzed_df)
       THEN pc' = "sidebar" /\ UNCHANGED error
       ELSE pc' = "crashed" /\ error' = "KeyError"
    /\ UNCHANGED <<logs, chat_history, projects, Locals>>

\* lines 177-179: no record was parsed.
NoValidEntries ==
    /\ UNCHANGED run
    /\ pc = "parsed"
    /\ IsEmpty(log_df)
    /\ chat_history' = store_chat(chat_history, "assistant", NoEntriesMsg)
    /\ pc' = "sidebar"
    /\ UNCHANGED <<logs, projects, Locals, error>>

\* lines 182-254: the sidebar reads projects and chat_history and shows them.
Sidebar ==
    /\ UNCHANGED run
    /\ pc = "sidebar"
    /\ projects.exists /\ chat_history.exists
    /\ pc' = "done"
    /\ UNCHANGED <<logs, chat_history, projects, Locals, error>>

\* Any interaction runs the script again from its first line; logs.db stays.
Rerun ==
    /\ pc \in {"done", "crashed"}
    /\ run < MaxRuns
    /\ run' = run + 1
    /\ pc' = "start"
    /\ uploaded_file' = None
    /\ log_df' = Unset
    /\ logs_df' = Unset
    /\ analyzed_df' = Unset
    /\ anomalies_df' = Unset
    /\ model_fit' = "none"
    /\ error' = "none"
    /\ UNCHANGED <<logs, chat_history, projects>>

Next ==
    \/ ResetDb
    \/ InitDb
    \/ Uploader
    \/ ParseLog
    \/ StoreLogs
    \/ RecordIngestion
    \/ FetchLogs
    \/ DetectAnomalies
    \/ RenderAnomalies
    \/ RenderHistogram
    \/ NoValidEntries
    \/ Sidebar
    \/ Rerun

Spec == Init /\ [][Next]_vars

(***************************** the functions, called freely ****************)

\* The state after the module's initialisation, no file uploaded.
InitApi ==
    /\ logs = EmptyTable
    /\ chat_history = EmptyTable
    /\ projects = EmptyTable
    /\ pc = "init_db"
    /\ uploaded_file = None
    /\ log_df = Unset
    /\ logs_df = Unset
    /\ analyzed_df = Unset
    /\ anomalies_df = Unset
    /\ model_fit = "none"
    /\ run = 1
    /\ error = "none"

\* reset_db(), as at the start of a run: the frames of the last run are gone.
ApiResetDb ==
    /\ UNCHANGED run
    /\ logs' = reset_db(Db).logs
    /\ chat_history' = reset_db(Db).chat_history
    /\ projects' = reset_db(Db).projects
    /\ pc' = "reset_db"
    /\ log_df' = Unset
    /\ logs_df' = Unset
    /\ analyzed_df' = Unset
    /\ anomalies_df' = Unset
    /\ model_fit' = "none"
    /\ error' = "none"
    /\ UNCHANGED uploaded_file

\* init_db()
ApiInitDb ==
    /\ UNCHANGED run
    /\ pc # "init_db"
    /\ logs' = init_db(Db).logs
    /\ chat_history' = init_db(Db).chat_history
    /\ projects' = init_db(Db).projects
    /\ pc' = "init_db"
    /\ error' = "none"
    /\ UNCHANGED Locals

\* store_logs(df) for a parsed frame df
ApiStoreLogs ==
    /\ UNCHANGED run
    /\ \E df \in Batches :
         /\ Len(logs.rows) + Len(df.rows) <= MaxRecords
         /\ log_df' = df
         /\ logs' = store_logs(logs, df)
    /\ pc' = "store_logs"
    /\ error' = "none"
    /\ UNCHANGED <<chat_history, projects, uploaded_file, logs_df, analyzed_df,
                   anomalies_df, model_fit>>

\* logs_df = fetch_logs()
ApiFetchLogs ==
    /\ UNCHANGED run
    /\ LET r == fetch_logs(logs)
       IN  /\ error' = r.raised
           /\ logs_df' = r.df
    /\ pc' = "fetch_logs"
    /\ analyzed_df' = Unset
    /\ anomalies_df' = Unset
    /\ model_fit' = "none"
    /\ UNCHANGED <<logs, chat_history, projects, uploaded_file, log_df>>

\* A detect_anomalies that saves the annotated frame to the logs table.
ApiDetectWritesBack ==
    /\ UNCHANGED run
    /\ logs_df.kind = "DataFrame"
    /\ \E fit \in FitOutcomes(logs_df) :
         LET r == detect_anomalies(logs_df, fit)
         IN  /\ logs_df' = r.input
             /\ logs' = [logs EXCEPT !.rows = r.input.rows]
             /\ model_fit' = r.fitted
             /\ error' = r.raised
             /\ analyzed_df' = r.analyzed
             /\ anomalies_df' = r.anomalies
    /\ pc' = "detect_anomalies"
    /\ UNCHANGED <<chat_history, projects, uploaded_file, log_df>>

\* analyzed_df, anomalies_df = detect_anomalies(logs_df)
ApiDetect ==
    /\ UNCHANGED run
    /\ logs_df.kind = "DataFrame"
    /\ \E fit \in FitOutcomes(logs_df) :
         LET r == detect_anomalies(logs_df, fit)
         IN  /\ logs_df' = r.input
             /\ model_fit' = r.fitted
             /\ error' = r.raised
             /\ analyzed_df' = r.analyzed
             /\ anomalies_df' = r.anomalies
    /\ pc' = "detect_anomalies"
    /\ UNCHANGED <<logs, chat_history, projects, uploaded_file, log_df>>

NextApi ==
    \/ ApiResetDb
    \/ ApiInitDb
    \/ ApiStoreLogs
    \/ ApiFetchLogs
    \/ ApiDetect

SpecApi == InitApi /\ [][NextApi]_vars

(***************************** the properties ******************************)

\* The decoded text of the uploaded file.
Text == Utf8Decode(uploaded_file.data).text

NoBreak(s) == \A k \in 1..Len(s) : s[k] \notin LineBreaks

EndsWith(s, p) == Len(s) >= Len(p) /\ MatchAt(s, p, Len(s) - Len(p) + 1)

Rec(T, L, M) == [timestamp |-> T, level |-> L, message |-> M]

\* The text read as T ' - ' L ' - ' M with the separators at i and j.
PartT(text, i) == Take(text, i - 1)

PartL(text, i, j) == SubSeq(text, i + Len(Delim), j - 1)

PartM(text, j) == Drop(text, j + Len(Delim) - 1)

IsReading(text, i, j) ==
    /\ MatchAt(text, Delim, i)
    /\ MatchAt(text, Delim, j)
    /\ j >= i + Len(Delim)
    /\ ~Contains(PartT(text, i), Delim)
    /\ ~Contains(PartL(text, i, j), Delim)
    /\ NoBreak(text)

NoHalfDelim(text, i, j) ==
    /\ ~EndsWith(PartT(text, i), <<SP, HY>>)
    /\ ~EndsWith(PartL(text, i, j), <<SP, HY>>)

\* What parse_log returns when line k of the text gives exactly the record r:
\* the records of the lines before it, r, the records of the lines after it.
WithRecordAt(lines, k, r) ==
    ParseLines(SubSeq(lines, 1, k - 1)) \o <<r>>
    \o ParseLines(SubSeq(lines, k + 1, Len(lines)))

\* C1, as stated: for every line T ' - ' L ' - ' M where T and L do not hold
\* the separator and no part holds a line break, parse_log yields exactly the
\* one record (T, L, M) for that line.
C1_Original ==
    pc = "parsed" =>
      LET lines == SplitLines(Text)
      IN  \A k \in 1..Len(lines) :
            \A i, j \in 1..Len(lines[k]) :
              IsReading(lines[k], i, j) =>
                log_df.rows =
                  WithRecordAt(lines, k, Rec(PartT(lines[k], i),
                                             PartL(lines[k], i, j),
                                             PartM(lines[k], j)))

\* C1, amended: for every line T ' - ' L ' - ' M where T and L neither hold
\* the separator nor end with ' -', and no part holds a line break, parse_log
\* yields exactly the one record (T, L, M) for that line, also when M holds
\* the separator.
C1_WellFormedLine ==
    pc = "parsed" =>
      LET lines == SplitLines(Text)
      IN  \A k \in 1..Len(lines) :
            \A i, j \in 1..Len(lines[k]) :
              IsReading(lines[k], i, j) /\ NoHalfDelim(lines[k], i, j) =>
                log_df.rows =
                  WithRecordAt(lines, k, Rec(PartT(lines[k], i),
                                             PartL(lines[k], i, j),
                                             PartM(lines[k], j)))

\* A well-formed line whose message holds the separator has been parsed, in a
\* file of one line.
C1_Witness ==
    /\ pc = "parsed"
    /\ LET text == Text
       IN  \E i, j \in 1..Len(text) :
             /\ IsReading(text, i, j) /\ NoHalfDelim(text, i, j)
             /\ Contains(PartM(text, j), Delim)
             /\ PartT(text, i) # <<>>
             /\ log_df.rows =
                  <<Rec(PartT(text, i), PartL(text, i, j), PartM(text, j))>>

RECURSIVE CountDelim(_)
\* str.count(' - '): the occurrences of the separator, not overlapping.
CountDelim(line) ==
    LET i == Find(line, Delim)
    IN  IF i = 0 THEN 0 ELSE 1 + CountDelim(Drop(line, i + Len(Delim) - 1))

HasTwoDelims(line) == CountDelim(line) >= 2

JoinRec(r) == r.timestamp \o Delim \o r.level \o Delim \o r.message

\* C2: parse_log returns on every decodable input, and every record of its
\* result is a line with at least two separators cut at two of them; there
\* are no more records than such lines, so none when there is no such line.
C2_MalformedLinesDropped ==
    /\ pc = "parsed" =>
         LET good == SelectSeq(SplitLines(Text), HasTwoDelims)
         IN  /\ log_df.kind = "DataFrame"
             /\ error = "none"
             /\ Len(log_df.rows) <= Len(good)
             /\ \A k \in 1..Len(log_df.rows) :
                  \E g \in 1..Len(good) : JoinRec(log_df.rows[k]) = good[g]
    /\ (pc = "crashed" /\ log_df = Unset) => ~Utf8Decode(uploaded_file.data).ok

\* A file with a line of exactly one separator and a line that gave a record.
C2_Witness ==
    /\ pc = "parsed"
    /\ \E k \in 1..Len(SplitLines(Text)) : CountDelim(SplitLines(Text)[k]) = 1
    /\ Len(log_df.rows) = 1

\* C3: detect_anomalies on fewer than 10 records (none included) returns the
\* frame it was given, row for row and with no column added, and an empty
\* outlier set, and does not fit the model.
C3_BelowFloorUnchanged ==
    [][(pc' = "detect_anomalies" /\ Len(logs_df.rows) < MinSamples) =>
          /\ analyzed_df' = logs_df
          /\ logs_df' = logs_df
          /\ anomalies_df'.rows = <<>>
          /\ anomalies_df'.kind # "unset"
          /\ model_fit' = "skipped"
          /\ error' = "none"]_vars

\* detect_anomalies has returned on 9 records.
C3_Witness ==
    /\ pc = "detect_anomalies"
    /\ Len(analyzed_df.rows) = MinSamples - 1
    /\ model_fit = "skipped"

SameRecord(a, r) ==
    /\ a.timestamp = r.timestamp
    /\ a.level = r.level
    /\ a.message = r.message

\* C5: detect_anomalies on 10 or more records, whatever the labels, returns as
\* many annotated records as it was given, each with the timestamp, level and
\* message of the record at its place and a label -1 or 1, and the outliers
\* are exactly the annotated records labelled -1.
C5_AnnotatedAndOutliers ==
    [][(pc' = "detect_anomalies" /\ Len(logs_df.rows) >= MinSamples
        /\ model_fit' = "ok") =>
          /\ Len(analyzed_df'.rows) = Len(logs_df.rows)
          /\ \A k \in 1..Len(logs_df.rows) :
               /\ SameRecord(analyzed_df'.rows[k], logs_df.rows[k])
               /\ analyzed_df'.rows[k].anomaly \in {-1, 1}
          /\ anomalies_df'.kind = "DataFrame"
          /\ \A k \in 1..Len(anomalies_df'.rows) :
               anomalies_df'.rows[k].anomaly = -1
          /\ Len(anomalies_df'.rows) =
               Cardinality({k \in 1..Len(analyzed_df'.rows) :
                              analyzed_df'.rows[k].anomaly = -1})
          /\ \A k \in 1..Len(anomalies_df'.rows) :
               \E m \in 1..Len(analyzed_df'.rows) :
                 anomalies_df'.rows[k] = analyzed_df'.rows[m]]_vars

\* The model has labelled some records of a frame -1 and some 1.
C5_Witness ==
    /\ pc = "detect_anomalies"
    /\ model_fit = "ok"
    /\ anomalies_df.rows # <<>>
    /\ Len(anomalies_df.rows) < Len(analyzed_df.rows)

\* C6: after store_logs(records), whatever the store held, fetch_logs returns
\* every row the store held before, unchanged and in place, followed by the
\* records of the batch with timestamp, level and message as given.
C6_AppendKeepsAll ==
    [][pc' = "store_logs" =>
          LET old == logs.rows
              new == fetch_logs(logs')
          IN  /\ new.raised = "none"
              /\ Len(new.df.rows) = Len(old) + Len(log_df'.rows)
              /\ \A k \in 1..Len(old) : new.df.rows[k] = old[k]
              /\ \A k \in 1..Len(log_df'.rows) :
                   SameRecord(new.df.rows[Len(old) + k], log_df'.rows[k])]_vars

\* A batch has been appended to a store that held records.
C6_Witness ==
    /\ pc = "store_logs"
    /\ Len(logs.rows) > Len(log_df.rows)

PersistedColumns == {"id", "timestamp", "level", "message"}

\* C9: a call of detect_anomalies leaves the store as it was (fetch_logs
\* returns the same before and after), and no row of the logs table ever has
\* a length or an anomaly column.
C9_DetectLeavesStore ==
    /\ [][pc' = "detect_anomalies" => fetch_logs(logs') = fetch_logs(logs)]_vars
    /\ [](\A k \in 1..Len(logs.rows) : DOMAIN logs.rows[k] \subseteq PersistedColumns)

\* The model has been fit on the records fetched from a store that holds them.
C9_Witness ==
    /\ pc = "detect_anomalies"
    /\ model_fit = "ok"
    /\ Len(logs.rows) >= MinSamples
    /\ \E k \in 1..Len(logs_df.rows) : "anomaly" \in DOMAIN logs_df.rows[k]

\* C4: a run whose store holds 1 to 9 records when detect_anomalies is called
\* goes on without an exception.
C4_SkipIsNoError ==
    (model_fit = "skipped" /\ Len(logs_df.rows) \in 1..(MinSamples - 1))
      => (pc # "crashed" /\ error = "none")

\* C7: a failure of the model's fit does not end the run with an exception.
C7_FitFailureSurvived ==
    model_fit = "raised" => (pc # "crashed" /\ error = "none")

\* C8: while the uploaded file is not valid UTF-8, the logs table holds no
\* record, the chat no "Logs successfully stored" message and the projects
\* table no entry.
C8_BadBytesStoreNothing ==
    (uploaded_file.present /\ ~Utf8Decode(uploaded_file.data).ok) =>
      /\ logs.rows = <<>>
      /\ projects.rows = <<>>
      /\ \A k \in 1..Len(chat_history.rows) : chat_history.rows[k].message # StoredMsg

\* A file with the separator twice and a bad byte has been rejected.
C8_Witness ==
    /\ pc = "crashed"
    /\ error = "UnicodeDecodeError"
    /\ CountDelim(uploaded_file.data) >= 2

WithIds(rows) == [k \in 1..Len(rows) |-> [id |-> k] @@ rows[k]]

\* C10: in every run of a session, the frame fetched and passed to
\* detect_anomalies holds exactly the records parsed from that run's file, in
\* line order with ids 1..n, and so no record of an earlier run.
C10_CorpusIsThisRunsFile ==
    pc = "fetched" =>
      /\ logs_df = DataFrame(WithIds(parse_log(uploaded_file.data).df.rows))
      /\ logs.rows = logs_df.rows
      /\ logs_df.rows # <<>>

\* A later run of a session has fetched its corpus.
C10_Witness ==
    /\ pc = "fetched"
    /\ run >= 2
    /\ Len(logs_df.rows) >= 2

====
